---- MODULE Spec2Model ----
(***************************************************************************)
(* Model of simple-sse-server.py: a single-threaded http.server.HTTPServer *)
(* whose handler SSEHandler answers GET (mock SSE stream, health, 404) and *)
(* OPTIONS (CORS preflight).                                               *)
(*                                                                         *)
(* One server thread (serve_forever) accepts one connection at a time and  *)
(* runs BaseHTTPRequestHandler.handle() on it to the end before it accepts *)
(* the next one.  cur/pc and the handler's locals are that thread's state; *)
(* head/body/ops/exc record what the handler did for the request it is     *)
(* handling (or handled last on the accepted connection).                  *)
(***************************************************************************)
EXTENDS Integers, Sequences, FiniteSets, TLC

\* ------------------------------------------------------------------ bounds
\* number of client connection slots
NConn == 2
\* largest value of the millisecond clock int(time.time() * 1000), from 0
MaxClock == 1

Conns == 1..NConn
NoConn == 0

\* ------------------------------------------------------- program constants
\* len(mock_logs)
CatalogSize == 12
\* default of the interval query parameter, in milliseconds
DefaultInterval == 1000

\* mock_logs: the message text is abbreviated to its position in the list
mock_logs ==
  << [workerId |-> "worker-1", level |-> "INFO",  message |-> 0,  timestamp |-> "11:00:00"],
     [workerId |-> "worker-1", level |-> "INFO",  message |-> 1,  timestamp |-> "11:00:01"],
     [workerId |-> "worker-1", level |-> "INFO",  message |-> 2,  timestamp |-> "11:00:02"],
     [workerId |-> "worker-2", level |-> "DEBUG", message |-> 3,  timestamp |-> "11:00:03"],
     [workerId |-> "worker-2", level |-> "INFO",  message |-> 4,  timestamp |-> "11:00:05"],
     [workerId |-> "worker-1", level |-> "INFO",  message |-> 5,  timestamp |-> "11:00:06"],
     [workerId |-> "worker-3", level |-> "WARN",  message |-> 6,  timestamp |-> "11:00:07"],
     [workerId |-> "worker-2", level |-> "INFO",  message |-> 7,  timestamp |-> "11:00:08"],
     [workerId |-> "worker-2", level |-> "INFO",  message |-> 8,  timestamp |-> "11:00:09"],
     [workerId |-> "worker-1", level |-> "INFO",  message |-> 9,  timestamp |-> "11:00:10"],
     [workerId |-> "worker-3", level |-> "INFO",  message |-> 10, timestamp |-> "11:00:12"],
     [workerId |-> "worker-3", level |-> "INFO",  message |-> 11, timestamp |-> "11:00:15"] >>

\* ------------------------------------------------------------------ paths
\* a request path is its sequence of segments
StreamPrefix == <<"api", "v1", "log-streaming", "test", "mock-stream">>
StreamPath == StreamPrefix \o <<"test-task-123">>
OtherTaskPath == StreamPrefix \o <<"other-task">>
HealthPath == <<"api", "v1", "log-streaming", "health">>
UnknownPath == <<"does-not-exist">>
Paths == {StreamPath, OtherTaskPath, HealthPath, UnknownPath}

\* the route /api/v1/log-streaming/test/mock-stream/{taskId} of the interface table
IsMockStreamRoute(p) ==
  Len(p) = Len(StreamPrefix) + 1 /\ SubSeq(p, 1, Len(StreamPrefix)) = StreamPrefix

\* --------------------------------------------------- query string parsing
\* a query value is the sequence of its characters; parse_qs drops blank
\* values, so <<>> stands for "parameter absent"
Absent == <<>>
Digit == {"0", "1", "2", "3", "4", "5", "6", "7", "8", "9"}

DigitVal(ch) ==
  CASE ch = "0" -> 0 [] ch = "1" -> 1 [] ch = "2" -> 2 [] ch = "3" -> 3
    [] ch = "4" -> 4 [] ch = "5" -> 5 [] ch = "6" -> 6 [] ch = "7" -> 7
    [] ch = "8" -> 8 [] ch = "9" -> 9

RECURSIVE DigitsVal(_)
DigitsVal(s) ==
  IF s = <<>> THEN 0 ELSE 10 * DigitsVal(SubSeq(s, 1, Len(s) - 1)) + DigitVal(s[Len(s)])

AllDigits(s) == s # <<>> /\ \A k \in 1..Len(s) : s[k] \in Digit

ParseError == [ok |-> FALSE, v |-> 0]

\* int(text) for an optional sign followed by decimal digits; anything else
\* raises ValueError
ParseInt(s) ==
  IF AllDigits(s) THEN [ok |-> TRUE, v |-> DigitsVal(s)]
  ELSE IF s # <<>> /\ s[1] = "-" /\ AllDigits(Tail(s)) THEN [ok |-> TRUE, v |-> 0 - DigitsVal(Tail(s))]
  ELSE IF s # <<>> /\ s[1] = "+" /\ AllDigits(Tail(s)) THEN [ok |-> TRUE, v |-> DigitsVal(Tail(s))]
  ELSE ParseError

\* query.get('count', [len(mock_logs)])[0] passed to int()
IntOfCount(arg) == IF arg = Absent THEN [ok |-> TRUE, v |-> CatalogSize] ELSE ParseInt(arg)

\* float(query.get('interval', [1000])[0]) / 1000.0, kept in milliseconds
\* (the model's query values are integer literals)
FloatOfInterval(arg) == IF arg = Absent THEN [ok |-> TRUE, v |-> DefaultInterval] ELSE ParseInt(arg)

Min(a, b) == IF a <= b THEN a ELSE b
Max(a, b) == IF a >= b THEN a ELSE b

\* count = min(int(...), len(mock_logs))
ClampCount(n) == Min(n, CatalogSize)

\* SliceTo that counts a zero n from the end as well
SliceTo_ZeroFromEnd(seq, n) ==
  IF n > 0 THEN SubSeq(seq, 1, Min(n, Len(seq)))
  ELSE SubSeq(seq, 1, Max(Len(seq) + n, 0))

\* Python's seq[:n]: a negative n counts from the end
SliceTo(seq, n) ==
  IF n >= 0 THEN SubSeq(seq, 1, Min(n, Len(seq)))
  ELSE SubSeq(seq, 1, Max(Len(seq) + n, 0))

\* -------------------------------------------------------------- frame ids
DigitChar(d) ==
  CASE d = 0 -> "0" [] d = 1 -> "1" [] d = 2 -> "2" [] d = 3 -> "3" [] d = 4 -> "4"
    [] d = 5 -> "5" [] d = 6 -> "6" [] d = 7 -> "7" [] d = 8 -> "8" [] d = 9 -> "9"

\* str(n) for n >= 0
RECURSIVE Str(_)
Str(n) == IF n < 10 THEN <<DigitChar(n)>> ELSE Str(n \div 10) \o <<DigitChar(n % 10)>>

\* LogId without the loop index
LogId_NoIndex(ms, idx) == Str(ms) \o <<"-">>

\* f"{int(time.time() * 1000)}-{i}"
LogId(ms, idx) == Str(ms) \o <<"-">> \o Str(idx)

\* f"{int(time.time() * 1000)}-complete"
CompleteId(ms) == Str(ms) \o <<"-">> \o <<"c", "o", "m", "p", "l", "e", "t", "e">>

\* ---------------------------------------------------------------- requests
Methods == {"GET", "OPTIONS"}
\* values of the count parameter: absent, unparseable, negative (below, at and
\* above minus the catalog size), zero, within the catalog, above the catalog
CountArgs ==
  { Absent, <<"x">>, <<"-", "1", "3">>, <<"-", "1", "2">>, <<"-", "1">>, <<"0">>,
    <<"1">>, <<"2">>, <<"3">>, <<"1", "2">>, <<"1", "3">> }
\* values of the interval parameter: absent, unparseable, negative, positive
IntervalArgs == { Absent, <<"x">>, <<"-", "5">>, <<"5">> }

\* the count values that give streams of 11 or 12 frames
LongCountArgs == { Absent, <<"-", "1">>, <<"1", "2">>, <<"1", "3">> }

\* the query string is only looked at on the stream route.  Every count is
\* combined with the default, the unparseable and the negative interval; the
\* explicit positive interval is combined with the counts of short streams
Requests ==
  [method : {"GET"}, path : {StreamPath}, count : CountArgs, interval : IntervalArgs \ {<<"5">>}]
  \cup [method : {"GET"}, path : {StreamPath}, count : CountArgs \ LongCountArgs, interval : {<<"5">>}]
  \cup [method : Methods, path : Paths, count : {Absent}, interval : {Absent}]

NoReq == [method |-> "-", path |-> <<>>, count |-> Absent, interval |-> Absent]

\* --------------------------------------------------------- response records
\* set_cors_headers / the three send_header calls of do_OPTIONS
CorsHeaders ==
  { <<"Access-Control-Allow-Origin", "*">>,
    <<"Access-Control-Allow-Methods", "GET, OPTIONS">>,
    <<"Access-Control-Allow-Headers", "Cache-Control">> }

NoHead == [status |-> 0, ctype |-> "-", cache |-> "-", connection |-> "-", cors |-> {}]
NoBody == [kind |-> "-", statusCode |-> 0, status |-> "-", activeConnections |-> 0 - 1, message |-> <<>>]
NoData == [totalLogs |-> 0 - 1]

\* one step of the stream loop: a write on wfile, a flush, a time.sleep
Op(op, event, idx, data, id, arg) ==
  [op |-> op, event |-> event, idx |-> idx, data |-> data, id |-> id, arg |-> arg]

VARIABLES
  client,            \* client[c]: "idle" (no connection), "open", "gone" (client closed its end)
  sock,              \* sock[c]: "none", "backlog" (connected, not accepted), "accepted"
  inbuf,             \* inbuf[c]: requests sent by the client and not yet read by the server
  cur,               \* the connection the server thread is handling, NoConn in serve_forever's select
  pc,                \* where the server thread is
  close_connection,  \* BaseHTTPRequestHandler.close_connection
  req,               \* the request being handled
  interval,          \* do_GET local, in milliseconds
  count,             \* do_GET local
  i,                 \* do_GET loop index
  now,               \* int(time.time() * 1000)
  head,              \* status line and headers written for req
  body,              \* JSON body written for req
  ops,               \* writes, flushes and sleeps of the stream loop for req
  exc,               \* exception raised while handling req, and whether do_GET caught it
  failed             \* history: a connection closed earlier ended with an exception

vars == <<client, sock, inbuf, cur, pc, close_connection, req, interval, count, i, now,
          head, body, ops, exc, failed>>

handlerVars == <<req, interval, count, i, head, body, ops, exc>>

Init ==
  /\ client = [c \in Conns |-> "idle"]
  /\ sock = [c \in Conns |-> "none"]
  /\ inbuf = [c \in Conns |-> 0]
  /\ cur = NoConn
  /\ pc = "accept"
  /\ close_connection = TRUE
  /\ req = NoReq
  /\ interval = 0
  /\ count = 0
  /\ i = 0
  /\ now = 0
  /\ head = NoHead
  /\ body = NoBody
  /\ ops = <<>>
  /\ exc = "none"
  /\ failed = FALSE

\* ------------------------------------------------------------- environment
\* the clock advances.  It is read only where a frame is formatted, so its
\* advance is placed where the server thread is about to format one
Tick ==
  /\ now < MaxClock
  /\ pc = "loop"
  /\ now' = now + 1
  /\ UNCHANGED <<failed, client, sock, inbuf, cur, pc, close_connection, handlerVars>>

\* a client connects and sends its first request; the connection takes the
\* lowest free slot
ClientConnect(c) ==
  /\ client[c] = "idle"
  /\ \A d \in Conns : d < c => client[d] # "idle"
  /\ client' = [client EXCEPT ![c] = "open"]
  /\ sock' = [sock EXCEPT ![c] = "backlog"]
  /\ inbuf' = [inbuf EXCEPT ![c] = 1]
  /\ UNCHANGED <<failed, cur, pc, close_connection, now, handlerVars>>

\* a client sends a further request on its open connection.  The server sees
\* a request only when it reads it, so the send is placed where the server
\* thread has come back to rfile.readline on that connection
ClientSend(c) ==
  /\ client[c] = "open"
  /\ inbuf[c] = 0
  /\ cur = c /\ pc = "read_request"
  /\ inbuf' = [inbuf EXCEPT ![c] = 1]
  /\ UNCHANGED <<failed, client, sock, cur, pc, close_connection, now, handlerVars>>

\* a client closes its end of the connection.  A close before the accept is
\* seen by the server only after the accept, so it is placed there
ClientClose(c) ==
  /\ client[c] = "open"
  /\ sock[c] = "accepted"
  /\ client' = [client EXCEPT ![c] = "gone"]
  /\ UNCHANGED <<failed, sock, inbuf, cur, pc, close_connection, now, handlerVars>>

\* results of a write on the socket of connection c: it succeeds while the
\* peer is there; once the peer has closed it may still succeed or raise
WriteResults(c) ==
  IF client[c] = "open" THEN {"ok"} ELSE {"ok", "BrokenPipeError", "ConnectionResetError"}

\* what do_GET's except clauses make of an exception raised inside the try block
Caught(e) == IF e = "BrokenPipeError" THEN "caught:BrokenPipeError" ELSE "caught:Exception"
\* an exception raised outside the try block leaves do_GET
Uncaught(e) == IF e = "ValueError" THEN "uncaught:ValueError" ELSE "uncaught:OSError"

\* Route with the health branch as the last branch
Route_UnknownIsHealth(path) ==
  IF path = StreamPath THEN "stream" ELSE "health"

\* the if/elif/else on path in do_GET
Route(path) ==
  IF path = StreamPath THEN "stream"
  ELSE IF path = HealthPath THEN "health"
  ELSE "not_found"

StreamHead ==
  [status |-> 200, ctype |-> "text/event-stream", cache |-> "no-cache",
   connection |-> "keep-alive", cors |-> CorsHeaders]
JsonHead(code) ==
  [status |-> code, ctype |-> "application/json", cache |-> "-", connection |-> "-", cors |-> CorsHeaders]
OptionsHead ==
  [status |-> 200, ctype |-> "-", cache |-> "-", connection |-> "-", cors |-> CorsHeaders]
HealthBody ==
  [kind |-> "health", statusCode |-> 0, status |-> "healthy", activeConnections |-> 0, message |-> <<>>]
NotFoundBody(path) ==
  [kind |-> "error", statusCode |-> 404, status |-> "Not Found", activeConnections |-> 0 - 1,
   message |-> <<"Cannot GET">> \o path]

\* ------------------------------------------------------------ server thread
\* serve_forever: select, get_request, process_request; handle() starts
Accept(c) ==
  /\ pc = "accept"
  /\ sock[c] = "backlog"
  /\ sock' = [sock EXCEPT ![c] = "accepted"]
  /\ cur' = c
  /\ pc' = "read_request"
  /\ close_connection' = TRUE
  /\ req' = NoReq /\ interval' = 0 /\ count' = 0 /\ i' = 0
  /\ head' = NoHead /\ body' = NoBody /\ ops' = <<>> /\ exc' = "none"
  /\ UNCHANGED <<failed, client, inbuf, now>>

\* handle_one_request: rfile.readline returns a request line; parse_request
ReadRequest ==
  /\ pc = "read_request"
  /\ inbuf[cur] > 0
  /\ \E r \in Requests : req' = r
  /\ inbuf' = [inbuf EXCEPT ![cur] = 0]
  /\ close_connection' = TRUE
  /\ pc' = "dispatch"
  /\ interval' = 0 /\ count' = 0 /\ i' = 0
  /\ head' = NoHead /\ body' = NoBody /\ ops' = <<>> /\ exc' = "none"
  /\ UNCHANGED <<failed, client, sock, cur, now>>

\* handle_one_request: rfile.readline returns b'' because the client closed
ReadEOF ==
  /\ pc = "read_request"
  /\ inbuf[cur] = 0
  /\ client[cur] = "gone"
  /\ close_connection' = TRUE
  /\ pc' = "shutdown"
  /\ UNCHANGED <<failed, client, sock, inbuf, cur, now, handlerVars>>

\* StreamHeaders reached whatever the request method
StreamHeaders_AnyMethod ==
  /\ pc = "dispatch"
  /\ Route(req.path) = "stream"
  /\ close_connection' = FALSE
  /\ \E r \in WriteResults(cur) :
       IF r = "ok"
       THEN /\ head' = StreamHead
            /\ pc' = "parse_query"
            /\ exc' = exc
       ELSE /\ head' = head
            /\ pc' = "handle_error"
            /\ exc' = Uncaught(r)
  /\ UNCHANGED <<failed, client, sock, inbuf, cur, now, req, interval, count, i, body, ops>>

\* do_GET, stream branch: send_response(200) .. end_headers()
StreamHeaders ==
  /\ pc = "dispatch"
  /\ req.method = "GET"
  /\ Route(req.path) = "stream"
  /\ close_connection' = FALSE
  /\ \E r \in WriteResults(cur) :
       IF r = "ok"
       THEN /\ head' = StreamHead
            /\ pc' = "parse_query"
            /\ exc' = exc
       ELSE /\ head' = head
            /\ pc' = "handle_error"
            /\ exc' = Uncaught(r)
  /\ UNCHANGED <<failed, client, sock, inbuf, cur, now, req, interval, count, i, body, ops>>

\* do_GET, stream branch: interval = float(...) / 1000.0; count = min(int(...), len(mock_logs))
ParseQuery ==
  /\ pc = "parse_query"
  /\ LET f == FloatOfInterval(req.interval)
         n == IntOfCount(req.count)
     IN IF f.ok /\ n.ok
        THEN /\ interval' = f.v
             /\ count' = ClampCount(n.v)
             /\ pc' = "loop"
             /\ exc' = exc
        ELSE /\ interval' = IF f.ok THEN f.v ELSE interval
             /\ count' = count
             /\ pc' = "handle_error"
             /\ exc' = Uncaught("ValueError")
  /\ i' = 0
  /\ UNCHANGED <<failed, client, sock, inbuf, cur, close_connection, now, req, head, body, ops>>

\* WriteLog with a handler that goes on to the next frame after a failed write
WriteLog_ContinueAfterFailure ==
  /\ pc = "loop"
  /\ i < Len(SliceTo(mock_logs, count))
  /\ \E r \in WriteResults(cur) :
       IF r = "ok"
       THEN /\ ops' = ops \o << Op("write", "log", i, SliceTo(mock_logs, count)[i + 1], LogId(now, i), 0),
                               Op("flush", "log", i, NoData, <<>>, 0) >>
            /\ exc' = exc
            /\ IF i < count - 1
               THEN pc' = "pace" /\ i' = i
               ELSE pc' = "loop" /\ i' = i + 1
       ELSE /\ ops' = Append(ops, Op("write_failed", "log", i, NoData, <<>>, 0))
            /\ exc' = Caught(r)
            /\ pc' = "loop"
            /\ i' = i + 1
  /\ UNCHANGED <<failed, client, sock, inbuf, cur, close_connection, now, req, interval, count, head, body>>

\* WriteLog without the flush
WriteLog_NoFlush ==
  /\ pc = "loop"
  /\ i < Len(SliceTo(mock_logs, count))
  /\ \E r \in WriteResults(cur) :
       IF r = "ok"
       THEN /\ ops' = Append(ops, Op("write", "log", i, SliceTo(mock_logs, count)[i + 1], LogId(now, i), 0))
            /\ exc' = exc
            /\ IF i < count - 1
               THEN pc' = "pace" /\ i' = i
               ELSE pc' = "loop" /\ i' = i + 1
       ELSE /\ ops' = Append(ops, Op("write_failed", "log", i, NoData, <<>>, 0))
            /\ exc' = Caught(r)
            /\ pc' = "returned"
            /\ i' = i
  /\ UNCHANGED <<failed, client, sock, inbuf, cur, close_connection, now, req, interval, count, head, body>>

\* one iteration of the for loop up to the pacing test: write and flush frame i
WriteLog ==
  /\ pc = "loop"
  /\ i < Len(SliceTo(mock_logs, count))
  /\ \E r \in WriteResults(cur) :
       IF r = "ok"
       THEN /\ ops' = ops \o << Op("write", "log", i, SliceTo(mock_logs, count)[i + 1], LogId(now, i), 0),
                               Op("flush", "log", i, NoData, <<>>, 0) >>
            /\ exc' = exc
            /\ IF i < count - 1
               THEN pc' = "pace" /\ i' = i
               ELSE pc' = "loop" /\ i' = i + 1
       ELSE /\ ops' = Append(ops, Op("write_failed", "log", i, NoData, <<>>, 0))
            /\ exc' = Caught(r)
            /\ pc' = "returned"
            /\ i' = i
  /\ UNCHANGED <<failed, client, sock, inbuf, cur, close_connection, now, req, interval, count, head, body>>

\* BeginSleep with a sleep that takes a negative argument as zero
BeginSleep_AcceptsNegative ==
  /\ pc = "pace"
  /\ ops' = Append(ops, Op("sleep", "-", i, NoData, <<>>, interval))
  /\ pc' = "sleeping"
  /\ exc' = exc
  /\ UNCHANGED <<failed, client, sock, inbuf, cur, close_connection, now, req, interval, count, i, head, body>>

\* time.sleep(interval) is entered; a negative argument raises ValueError
BeginSleep ==
  /\ pc = "pace"
  /\ IF interval >= 0
     THEN /\ ops' = Append(ops, Op("sleep", "-", i, NoData, <<>>, interval))
          /\ pc' = "sleeping"
          /\ exc' = exc
     ELSE /\ ops' = Append(ops, Op("sleep_failed", "-", i, NoData, <<>>, interval))
          /\ pc' = "returned"
          /\ exc' = Caught("ValueError")
  /\ UNCHANGED <<failed, client, sock, inbuf, cur, close_connection, now, req, interval, count, i, head, body>>

\* time.sleep returns; next iteration
Wake ==
  /\ pc = "sleeping"
  /\ pc' = "loop"
  /\ i' = i + 1
  /\ UNCHANGED <<failed, client, sock, inbuf, cur, close_connection, now, req, interval, count, head, body, ops, exc>>

\* after the loop: the complete frame is written and flushed
WriteComplete ==
  /\ pc = "loop"
  /\ i >= Len(SliceTo(mock_logs, count))
  /\ \E r \in WriteResults(cur) :
       IF r = "ok"
       THEN /\ ops' = ops \o << Op("write", "complete", 0 - 1, [totalLogs |-> count], CompleteId(now), 0),
                               Op("flush", "complete", 0 - 1, NoData, <<>>, 0) >>
            /\ exc' = exc
       ELSE /\ ops' = Append(ops, Op("write_failed", "complete", 0 - 1, NoData, <<>>, 0))
            /\ exc' = Caught(r)
  /\ pc' = "returned"
  /\ UNCHANGED <<failed, client, sock, inbuf, cur, close_connection, now, req, interval, count, i, head, body>>

\* do_GET, health branch
Health ==
  /\ pc = "dispatch"
  /\ req.method = "GET"
  /\ Route(req.path) = "health"
  /\ \E r1 \in WriteResults(cur), r2 \in WriteResults(cur) :
       IF r1 # "ok"
       THEN head' = head /\ body' = body /\ exc' = Uncaught(r1) /\ pc' = "handle_error"
       ELSE IF r2 # "ok"
       THEN head' = JsonHead(200) /\ body' = body /\ exc' = Uncaught(r2) /\ pc' = "handle_error"
       ELSE head' = JsonHead(200) /\ body' = HealthBody /\ exc' = exc /\ pc' = "returned"
  /\ UNCHANGED <<failed, client, sock, inbuf, cur, close_connection, now, req, interval, count, i, ops>>

\* do_GET, else branch
NotFound ==
  /\ pc = "dispatch"
  /\ req.method = "GET"
  /\ Route(req.path) = "not_found"
  /\ \E r1 \in WriteResults(cur), r2 \in WriteResults(cur) :
       IF r1 # "ok"
       THEN head' = head /\ body' = body /\ exc' = Uncaught(r1) /\ pc' = "handle_error"
       ELSE IF r2 # "ok"
       THEN head' = JsonHead(404) /\ body' = body /\ exc' = Uncaught(r2) /\ pc' = "handle_error"
       ELSE head' = JsonHead(404) /\ body' = NotFoundBody(req.path) /\ exc' = exc /\ pc' = "returned"
  /\ UNCHANGED <<failed, client, sock, inbuf, cur, close_connection, now, req, interval, count, i, ops>>

\* do_OPTIONS
Options ==
  /\ pc = "dispatch"
  /\ req.method = "OPTIONS"
  /\ \E r \in WriteResults(cur) :
       IF r = "ok"
       THEN head' = OptionsHead /\ exc' = exc /\ pc' = "returned"
       ELSE head' = head /\ exc' = Uncaught(r) /\ pc' = "handle_error"
  /\ UNCHANGED <<failed, client, sock, inbuf, cur, close_connection, now, req, interval, count, i, body, ops>>

\* handle(): while not self.close_connection: self.handle_one_request()
HandleLoop ==
  /\ pc = "returned"
  /\ pc' = IF close_connection THEN "shutdown" ELSE "read_request"
  /\ UNCHANGED <<failed, client, sock, inbuf, cur, close_connection, now, handlerVars>>

\* the server closes the accepted socket and goes back to select
CloseSocket ==
  /\ sock' = [sock EXCEPT ![cur] = "none"]
  /\ client' = [client EXCEPT ![cur] = "idle"]
  /\ inbuf' = [inbuf EXCEPT ![cur] = 0]
  /\ cur' = NoConn
  /\ pc' = "accept"
  /\ close_connection' = TRUE
  /\ req' = NoReq /\ interval' = 0 /\ count' = 0 /\ i' = 0
  /\ head' = NoHead /\ body' = NoBody /\ ops' = <<>> /\ exc' = "none"
  /\ failed' = (failed \/ exc # "none")
  /\ now' = now

\* finish_request returns: shutdown_request
Shutdown ==
  /\ pc = "shutdown"
  /\ CloseSocket

\* HandleError with the exception leaving serve_forever: the socket is closed
\* and the server thread ends
HandleError_ServerStops ==
  /\ pc = "handle_error"
  /\ sock' = [sock EXCEPT ![cur] = "none"]
  /\ client' = [client EXCEPT ![cur] = "idle"]
  /\ inbuf' = [inbuf EXCEPT ![cur] = 0]
  /\ cur' = NoConn
  /\ pc' = "stopped"
  /\ failed' = TRUE
  /\ UNCHANGED <<close_connection, now, handlerVars>>

\* _handle_request_noblock: except Exception: handle_error; shutdown_request
HandleError ==
  /\ pc = "handle_error"
  /\ CloseSocket

Next ==
  \/ Tick
  \/ \E c \in Conns : ClientConnect(c)
  \/ \E c \in Conns : ClientSend(c)
  \/ \E c \in Conns : ClientClose(c)
  \/ \E c \in Conns : Accept(c)
  \/ ReadRequest
  \/ ReadEOF
  \/ StreamHeaders
  \/ ParseQuery
  \/ WriteLog
  \/ BeginSleep
  \/ Wake
  \/ WriteComplete
  \/ Health
  \/ NotFound
  \/ Options
  \/ HandleLoop
  \/ Shutdown
  \/ HandleError

Spec == Init /\ [][Next]_vars

\* a step of the server thread (serve_forever and what it calls)
ServerStep ==
  \/ \E c \in Conns : Accept(c)
  \/ ReadRequest
  \/ ReadEOF
  \/ StreamHeaders
  \/ ParseQuery
  \/ WriteLog
  \/ BeginSleep
  \/ Wake
  \/ WriteComplete
  \/ Health
  \/ NotFound
  \/ Options
  \/ HandleLoop
  \/ Shutdown
  \/ HandleError

\* -------------------------------------------------------------- type check
TypeOK ==
  /\ client \in [Conns -> {"idle", "open", "gone"}]
  /\ sock \in [Conns -> {"none", "backlog", "accepted"}]
  /\ inbuf \in [Conns -> {0, 1}]
  /\ cur \in Conns \cup {NoConn}
  /\ pc \in {"accept", "read_request", "dispatch", "parse_query", "loop", "pace", "sleeping",
             "returned", "handle_error", "shutdown"}
  /\ close_connection \in BOOLEAN
  /\ now \in 0..MaxClock
  /\ failed \in BOOLEAN
  /\ (cur = NoConn) = (pc = "accept")
  /\ \A c \in Conns : (sock[c] = "accepted") = (cur = c)

\* ------------------------------------------------------------ trace readers
\* the frames written for the current request, in order
Frames == SelectSeq(ops, LAMBDA o : o.op = "write")
LogFrames == SelectSeq(ops, LAMBDA o : o.op = "write" /\ o.event = "log")
CompleteFrames == SelectSeq(ops, LAMBDA o : o.op = "write" /\ o.event = "complete")
Sleeps == SelectSeq(ops, LAMBDA o : o.op = "sleep")
CompleteWritten == Len(CompleteFrames) > 0

\* the request is a GET on the path the code streams on
IsStreamRequest == req.method = "GET" /\ req.path = StreamPath
\* do_GET (or do_OPTIONS) is over for the current request
HandlerOver == pc \in {"returned", "handle_error"}

\* ------------------------------------------------------------------ claims

\* C1: a stream request with count = k, 1 <= k <= 12 (and an interval that
\* parses), whose client stays connected, is answered with exactly k log frames
\* carrying catalog entries 0..k-1 in order, then exactly one complete frame,
\* and nothing after it.
C1_ExactlyKLogsThenComplete ==
  LET n == IntOfCount(req.count)
  IN (/\ IsStreamRequest
      /\ n.ok /\ n.v >= 1 /\ n.v <= CatalogSize
      /\ FloatOfInterval(req.interval).ok
      /\ pc = "returned"
      /\ client[cur] = "open")
     => /\ Len(Frames) = n.v + 1
        /\ \A k \in 1..n.v :
             /\ k <= Len(Frames)
             /\ Frames[k].event = "log"
             /\ Frames[k].data = mock_logs[k]
        /\ Len(Frames) >= 1 /\ Frames[Len(Frames)].event = "complete"

\* C2: whenever a complete frame has been written, its totalLogs equals the
\* number of log frames written before it in the same stream.
C2_TotalLogsCountsLogFrames ==
  \A k \in 1..Len(ops) :
    (ops[k].op = "write" /\ ops[k].event = "complete")
      => ops[k].data.totalLogs = Len(LogFrames)

\* C3: a stream whose requested count is negative writes no log frame.
C3_NegativeCountWritesNoLog ==
  LET n == IntOfCount(req.count)
  IN (IsStreamRequest /\ n.ok /\ n.v < 0) => Len(LogFrames) = 0

\* C4: while a stream is suspended in its pacing delay, a request waiting on
\* another connection can be accepted.
C4_PacingDoesNotBlockAccept ==
  \A b \in Conns :
    (pc = "sleeping" /\ cur # b /\ sock[b] = "backlog") => ENABLED Accept(b)

\* C5: after the complete frame the server closes the connection by itself: it
\* is never left waiting for the client to close or to send a further request.
C5_ServerClosesAfterComplete ==
  ~(/\ CompleteWritten
    /\ pc = "read_request"
    /\ client[cur] = "open"
    /\ inbuf[cur] = 0)

\* C6: a stream request with an unparseable interval or count is answered 400;
\* status 200 and the text/event-stream headers are never sent for it.
C6_MalformedQueryGets400 ==
  (IsStreamRequest /\ ~(FloatOfInterval(req.interval).ok /\ IntOfCount(req.count).ok))
    => /\ head.status # 200
       /\ head.ctype # "text/event-stream"
       /\ HandlerOver => head.status = 400

\* C7: when the write of a log frame fails, nothing more is attempted on the
\* connection for that request (no later write, no sleep), the exception is
\* caught inside do_GET and do_GET returns.
C7_FailedWriteEndsStream ==
  \A k \in 1..Len(ops) :
    (ops[k].op = "write_failed" /\ ops[k].event = "log")
      => /\ k = Len(ops)
         /\ exc \in {"caught:BrokenPipeError", "caught:Exception"}
         /\ pc \in {"returned", "read_request", "shutdown"}

\* C7 witness: the write of the 4th frame of a 12-frame stream has failed and
\* do_GET has returned.
C7_Witness ==
  /\ pc = "returned"
  /\ count = 12
  /\ Len(LogFrames) = 3
  /\ Len(ops) > 0 /\ ops[Len(ops)].op = "write_failed" /\ ops[Len(ops)].idx = 3

\* C8: in a completed stream with a connected client there is exactly one
\* pacing sleep between consecutive log frames and none between the last log
\* frame and the complete frame, max(k-1, 0) sleeps for k log frames.
C8_OneSleepBetweenLogFrames ==
  (CompleteWritten /\ client[cur] = "open")
    => /\ Len(Sleeps) = Max(Len(LogFrames) - 1, 0)
       /\ \A k \in 1..Len(ops) :
            ops[k].op = "sleep"
              => /\ k > 2 /\ ops[k - 1].op = "flush" /\ ops[k - 1].event = "log"
                 /\ k < Len(ops) /\ ops[k + 1].op = "write" /\ ops[k + 1].event = "log"

\* C9: a GET on /api/v1/log-streaming/test/mock-stream/{taskId} is answered
\* with status 200 and Content-Type text/event-stream, whatever the taskId.
C9_EveryTaskIdStreams ==
  (req.method = "GET" /\ IsMockStreamRoute(req.path) /\ head # NoHead)
    => head.status = 200 /\ head.ctype = "text/event-stream"

\* C10: no two frames written in one stream carry the same id.
C10_FrameIdsUnique ==
  LET f == Frames
  IN \A j, k \in 1..Len(f) : j < k => f[j].id # f[k].id

\* C10 witness: a finished stream of three or more frames, all written within
\* the same millisecond.
C10_Witness ==
  /\ pc = "returned"
  /\ CompleteWritten
  /\ Len(Frames) >= 3
  /\ now = 0

\* the payloads of the log frames written for the current request, in order
LogPayloads == LET f == LogFrames IN [k \in 1..Len(f) |-> f[k].data]

\* C11: a stream whose count parameter is above the catalog size, or absent,
\* and whose client stays connected, writes the 12 catalog entries in order as
\* log frames and a complete frame with totalLogs = 12.
C11_CountAboveCatalogIsClamped ==
  LET n == IntOfCount(req.count)
  IN (/\ IsStreamRequest
      /\ n.ok /\ (req.count = Absent \/ n.v > CatalogSize)
      /\ FloatOfInterval(req.interval).ok
      /\ pc = "returned"
      /\ client[cur] = "open")
     => /\ LogPayloads = mock_logs
        /\ Len(CompleteFrames) = 1
        /\ CompleteFrames[1].data.totalLogs = CatalogSize

\* the response recorded for the current request is the one the handler gives
\* to that request: preflight head, health body, 404 body, or the stream of
\* the clamped count
AnsweredAsRequested ==
  IF req.method = "OPTIONS"
  THEN head = OptionsHead /\ body = NoBody /\ ops = <<>>
  ELSE IF Route(req.path) = "health"
  THEN head = JsonHead(200) /\ body = HealthBody /\ ops = <<>>
  ELSE IF Route(req.path) = "not_found"
  THEN head = JsonHead(404) /\ body = NotFoundBody(req.path) /\ ops = <<>>
  ELSE LET n == ClampCount(IntOfCount(req.count).v)
       IN /\ head = StreamHead /\ body = NoBody
          /\ LogPayloads = SliceTo(mock_logs, n)
          /\ Len(CompleteFrames) = 1 /\ CompleteFrames[1].data.totalLogs = n

\* C12: after a connection has ended with an exception (unparseable query
\* parameter, client disconnect, write failure) the listener still accepts a
\* waiting connection, and a request handled afterwards without a failure of
\* its own is answered as requested.
C12_ErrorsAreContained ==
  /\ (failed /\ cur = NoConn) => \A b \in Conns : sock[b] = "backlog" => ENABLED Accept(b)
  /\ (failed /\ pc = "returned" /\ exc = "none" /\ client[cur] = "open") => AnsweredAsRequested

\* C12 witness: after an earlier connection ended with an exception, a health
\* request on a later connection has been answered.
C12_Witness ==
  /\ failed
  /\ pc = "returned" /\ exc = "none" /\ client[cur] = "open"
  /\ req.method = "GET" /\ req.path = HealthPath
  /\ head.status = 200 /\ body = HealthBody

\* C13: a stream that has written a log frame has 0 < count <= len(catalog)
\* and interval > 0.
C13_StreamRequestInvariant ==
  (IsStreamRequest /\ Len(LogFrames) >= 1)
    => (0 < count /\ count <= CatalogSize /\ interval > 0)

\* C14: a health request is answered 200 with status healthy and
\* activeConnections 0, and a request waiting on another connection is always
\* going to be answered: the server thread is never left without a step to
\* take while a connection waits in the backlog.
C14_HealthAlwaysAnswered ==
  /\ (req.method = "GET" /\ req.path = HealthPath /\ pc = "returned")
       => (head.status = 200 /\ body.status = "healthy" /\ body.activeConnections = 0)
  /\ (\E b \in Conns : sock[b] = "backlog") => ENABLED ServerStep

\* C15: a stream request with count = 0 writes no log frame and never sleeps;
\* with a connected client it writes exactly one complete frame, totalLogs = 0.
C15_CountZero ==
  LET n == IntOfCount(req.count)
  IN (IsStreamRequest /\ n.ok /\ n.v = 0)
     => /\ Len(LogFrames) = 0
        /\ \A k \in 1..Len(ops) : ops[k].op \notin {"sleep", "sleep_failed"}
        /\ (pc = "returned" /\ client[cur] = "open")
             => /\ Len(Frames) = 1
                /\ Frames[1].event = "complete"
                /\ Frames[1].data.totalLogs = 0

\* C15 witness: a count = 0 stream has ended with its complete frame written.
C15_Witness ==
  /\ IsStreamRequest /\ req.count = <<"0">>
  /\ pc = "returned" /\ client[cur] = "open"
  /\ Len(Frames) = 1 /\ CompleteWritten

\* C16: a GET on a path that is neither the stream route nor the health route
\* never writes an SSE frame and is answered 404 with statusCode 404, error
\* "Not Found" and message "Cannot GET <path>".
C16_UnknownPathGets404 ==
  (req.method = "GET" /\ ~IsMockStreamRoute(req.path) /\ req.path # HealthPath)
    => /\ ops = <<>>
       /\ pc = "returned"
            => /\ head.status = 404 /\ head.ctype = "application/json"
               /\ body.statusCode = 404
               /\ body.status = "Not Found"
               /\ body.message = <<"Cannot GET">> \o req.path

\* C16 witness: GET /does-not-exist has been answered.
C16_Witness ==
  /\ req.method = "GET" /\ req.path = UnknownPath
  /\ pc = "returned" /\ head.status = 404 /\ body.statusCode = 404

\* C17: an OPTIONS request to any path is answered 200 with the three CORS
\* headers and no body, and never starts a stream.
C17_OptionsPreflight ==
  req.method = "OPTIONS"
    => /\ ops = <<>>
       /\ body = NoBody
       /\ head.ctype # "text/event-stream"
       /\ pc \notin {"parse_query", "loop", "pace", "sleeping"}
       /\ pc = "returned" => (head.status = 200 /\ head.cors = CorsHeaders /\ Cardinality(head.cors) = 3)

\* C17 witness: OPTIONS on the stream path has been answered.
C17_Witness ==
  /\ req.method = "OPTIONS" /\ req.path = StreamPath
  /\ pc = "returned" /\ head.status = 200

\* C18: every pacing sleep comes right after the write and the flush of the
\* frame it follows, and every written frame is flushed at once; what follows
\* a sleep is the write of the next frame.
C18_FlushBeforeSleep ==
  \A k \in 1..Len(ops) :
    /\ ops[k].op \in {"sleep", "sleep_failed"}
         => /\ k >= 3
            /\ ops[k - 1].op = "flush" /\ ops[k - 1].idx = ops[k].idx
            /\ ops[k - 2].op = "write" /\ ops[k - 2].idx = ops[k].idx
    /\ ops[k].op = "write"
         => /\ k < Len(ops)
            /\ ops[k + 1].op = "flush" /\ ops[k + 1].idx = ops[k].idx
    /\ (ops[k].op = "sleep" /\ k < Len(ops))
         => (ops[k + 1].op \in {"write", "write_failed"} /\ ops[k + 1].idx = ops[k].idx + 1)

\* C18 witness: the stream is in the sleep after its second frame.
C18_Witness ==
  /\ pc = "sleeping"
  /\ Len(ops) = 6
  /\ ops[6].op = "sleep" /\ ops[6].idx = 1

\* C19: the log payloads of a stream that has ended with its client connected
\* are the slice of the catalog its effective count selects, whatever its
\* interval and whatever happened before it.
C19_PayloadsDependOnCountOnly ==
  (IsStreamRequest /\ pc = "returned" /\ client[cur] = "open")
    => LogPayloads = SliceTo(mock_logs, count)

\* C20: with a negative interval and an effective count >= 2 (client
\* connected), the stream is log frame 0 followed by a failed sleep: the
\* exception is caught in do_GET, no complete frame is written and do_GET
\* returns.
C20_NegativeIntervalStopsAfterFirstFrame ==
  LET f == FloatOfInterval(req.interval)
      n == IntOfCount(req.count)
  IN (/\ IsStreamRequest
      /\ f.ok /\ f.v < 0
      /\ n.ok /\ ClampCount(n.v) >= 2
      /\ client[cur] = "open")
     => /\ pc # "sleeping"
        /\ pc \in {"returned", "read_request", "shutdown"}
             => /\ Len(ops) = 3
                /\ ops[1].op = "write" /\ ops[1].event = "log" /\ ops[1].idx = 0
                /\ ops[2].op = "flush"
                /\ ops[3].op = "sleep_failed"
                /\ exc = "caught:Exception"
                /\ ~CompleteWritten

\* C20 witness: do_GET has returned from a stream with interval = -5 and
\* count >= 2 after one log frame.
C20_Witness ==
  /\ IsStreamRequest /\ interval < 0 /\ count >= 2
  /\ pc = "returned" /\ client[cur] = "open"
  /\ Len(LogFrames) = 1

====
